---- MODULE Spec2Model ----
(***************************************************************************)
(* Model of the cryptocurrency pricing analysis scripts                    *)
(*   src/Cryptocurrency-Pricing-Analysis.py  (cached fetch, merge, index,  *)
(*                                            conversion)                  *)
(*   src/crypto-tutorial.py                  (uncached fetch, merge)       *)
(*                                                                         *)
(* Five specifications share the module:                                   *)
(*   SpecFetch  the download-and-cache helpers over a persistent cache     *)
(*   SpecMerge  merge_dfs_on_column over lists of dataframes and labels    *)
(*   SpecIndex  merge of the exchanges, zero removal, average, conversion  *)
(*   SpecRun    a run of the script from the first download to combined_df *)
(*   SpecCorr   the yearly correlation tables and heatmaps of combined_df  *)
(***************************************************************************)
EXTENDS Integers, Sequences, FiniteSets, TLC

VARIABLES
    \* ---- persistent cache and the fetch helpers (SpecFetch)
    cache,        \* cache file path -> Absent | Corrupt | a pickled dataframe
    end_date,     \* datetime.now() of the current run of the script
    call,         \* what the last fetch call did
    writes,       \* <<source id, query params>> -> number of to_pickle calls made for it
    fetched,      \* the <<source id, query params>> whose fetch has returned a dataframe
    \* ---- merge_dfs_on_column (SpecMerge)
    dataframes,   \* the list of dataframes handed to merge_dfs_on_column
    labels,       \* the list of labels handed to it
    mpc,          \* which calls have been made on these arguments
    merged,       \* result of merge_dfs_on_column (Cryptocurrency-Pricing-Analysis.py)
    merged_tut,   \* result of merge_dfs_on_column (crypto-tutorial.py)
    perm,         \* the permutation applied to both lists for the second call
    merged_perm,  \* result of merge_dfs_on_column on the permuted lists
    \* ---- the bitcoin index and the conversion of the altcoins (SpecIndex)
    ipc,               \* how far the script has run
    exchange_data,     \* dict: exchange -> dataframe with a 'Weighted Price' column
    btc_usd_datasets,  \* the merged exchange table
    altcoin_data,      \* dict: altcoin -> dataframe with a 'weightedAverage' column
    combined_df,       \* the table of the USD prices of all the coins
    \* ---- the yearly correlations (SpecCorr)
    new_year,     \* the first day of the index of combined_df that lies in 2017
    cpc,          \* whether a correlation has been computed on combined_df
    corr_call     \* what the last call of corr() was handed and what it returned

fetchVars == <<cache, end_date, call, writes, fetched>>
mergeVars == <<dataframes, labels, mpc, merged, merged_tut, perm, merged_perm>>

indexVars == <<ipc, exchange_data, btc_usd_datasets, altcoin_data, combined_df>>
corrVars == <<new_year, cpc, corr_call>>

vars == <<fetchVars, mergeVars, indexVars, corrVars>>

(***************************************************************************)
(* Bounds                                                                  *)
(***************************************************************************)
MaxRuns == 2      \* the script is run at times 0 .. MaxRuns
MaxWrites == 2    \* a cache file is written at most this often in a behaviour
MaxDfs == 3       \* merge_dfs_on_column gets at most this many dataframes and labels
MaxDay == 4       \* timestamps of the merged series are days 1 .. MaxDay
MaxTradeDay == 2  \* the exchanges have rows on days 1 .. MaxTradeDay, the altcoins one day more
MaxCorrDay == 4   \* combined_df has rows on days 1 .. MaxCorrDay when it is correlated

(***************************************************************************)
(* Source identifiers and cache paths.  A string is a sequence of tokens,  *)
(* so that str.format and str.replace act on it.                           *)
(***************************************************************************)
QuandlIds == { <<"BCHARTS", "/", "KRAKENUSD">>, <<"BCHARTS", "/", "COINBASEUSD">> }
PoloPairs == { <<"BTC_ETH">> }
TutorialPairs == { <<"USDT_BTC">> }

\* str.replace('/', '-')
Replace(s, old, new) == [i \in 1..Len(s) |-> IF s[i] = old THEN new ELSE s[i]]

\* cache_path = '{}.pkl'.format(quandl_id).replace('/','-')
QuandlCachePath(quandl_id) == Replace(quandl_id \o <<".pkl">>, "/", "-")

\* get_json_data(json_url, poloniex_pair): the pair itself is the cache path
PoloCachePath(poloniex_pair) == poloniex_pair

CachePaths == { QuandlCachePath(q) : q \in QuandlIds } \cup { PoloCachePath(p) : p \in PoloPairs }

\* start_date, pediod
start_date == 2015
pediod == 86400
tutorial_period == 14400

\* base_polo_url.format(poloniex_pair, start_date.timestamp(), end_date.timestamp(), pediod)
PoloUrl(poloniex_pair, end) ==
    [pair |-> poloniex_pair, start |-> start_date, end |-> end, period |-> pediod]

\* crypto-tutorial.py: the period is part of the url text
TutorialUrl(poloniex_pair, end) ==
    [pair |-> poloniex_pair, start |-> start_date, end |-> end, period |-> tutorial_period]

(***************************************************************************)
(* Dataframes as the fetch helpers see them: where the rows came from, the *)
(* time they were downloaded for, whether there is any row, and the index. *)
(***************************************************************************)
Absent == [kind |-> "absent"]        \* open(cache_path) raises OSError
Corrupt == [kind |-> "corrupt"]      \* open succeeds, pickle.load raises (not an OSError)
RemoteError == [kind |-> "error"]    \* the remote call raises (network, malformed body)
NoValue == [kind |-> "none"]         \* nothing is returned: the call raised

Frame(src, end, empty, index) ==
    [kind |-> "frame", src |-> src, end |-> end, empty |-> empty, index |-> index]

IsFrame(x) == x.kind = "frame"

\* quandl.get(quandl_id, returns="pandas"): raises, or a dataframe indexed by Date,
\* which has no row when the dataset has none
QuandlResponses(quandl_id) ==
    {RemoteError, Frame(quandl_id, end_date, TRUE, "Date"), Frame(quandl_id, end_date, FALSE, "Date")}

\* pd.read_json(json_url): raises, or a dataframe with a default index; the body
\* "[]" gives a dataframe with no row and no column
JsonResponses(json_url) ==
    {RemoteError, Frame(json_url.pair, json_url.end, TRUE, "range"),
     Frame(json_url.pair, json_url.end, FALSE, "range")}

\* pickle.load(open(cache_path, 'rb'))
PickleLoad(entry) ==
    CASE entry.kind = "absent"  -> "OSError"
      [] entry.kind = "corrupt" -> "UnpicklingError"
      [] OTHER                  -> "loaded"

\* What a call did: how it ended, the value it returned, the dataframe the caching
\* helper handed back (df), the cache it left, whether the remote source was
\* contacted and whether to_pickle ran.
Result(outcome, value, newCache, remote, wrote) ==
    [outcome |-> outcome, value |-> value, df |-> value, cache |-> newCache,
     remote |-> remote, wrote |-> wrote]

\* get_quandl_data(quandl_id), with resp the answer quandl.get would give
get_quandl_data(quandl_id, resp) ==
    LET cache_path == QuandlCachePath(quandl_id)
        loaded == PickleLoad(cache[cache_path])
    IN  CASE loaded = "loaded" ->
               Result("return", cache[cache_path], cache, FALSE, FALSE)
          [] loaded = "OSError" ->
               IF resp = RemoteError
               THEN Result("raise", NoValue, cache, TRUE, FALSE)
               ELSE Result("return", resp, [cache EXCEPT ![cache_path] = resp], TRUE, TRUE)
          [] OTHER ->   \* only OSError and IOError are caught
               Result("raise", NoValue, cache, FALSE, FALSE)

\* get_json_data with a cache entry used only for the url it was downloaded for
get_json_data_by_url(json_url, cache_path, resp) ==
    LET entry == cache[cache_path]
        hit == PickleLoad(entry) = "loaded" /\ entry.end = json_url.end
    IN  CASE hit -> Result("return", entry, cache, FALSE, FALSE)
          [] ~hit /\ PickleLoad(entry) # "UnpicklingError" ->
               IF resp = RemoteError
               THEN Result("raise", NoValue, cache, TRUE, FALSE)
               ELSE Result("return", resp, [cache EXCEPT ![cache_path] = resp], TRUE, TRUE)
          [] OTHER -> Result("raise", NoValue, cache, FALSE, FALSE)

\* get_json_data with to_pickle moved out of the except block
get_json_data_rewrite(json_url, cache_path, resp) ==
    LET loaded == PickleLoad(cache[cache_path])
    IN  CASE loaded = "loaded" ->
               Result("return", cache[cache_path], cache, FALSE, TRUE)
          [] loaded = "OSError" ->
               IF resp = RemoteError
               THEN Result("raise", NoValue, cache, TRUE, FALSE)
               ELSE Result("return", resp, [cache EXCEPT ![cache_path] = resp], TRUE, TRUE)
          [] OTHER ->
               Result("raise", NoValue, cache, FALSE, FALSE)

\* get_json_data(json_url, cache_path), with resp the answer pd.read_json would give
get_json_data(json_url, cache_path, resp) ==
    LET loaded == PickleLoad(cache[cache_path])
    IN  CASE loaded = "loaded" ->
               Result("return", cache[cache_path], cache, FALSE, FALSE)
          [] loaded = "OSError" ->
               IF resp = RemoteError
               THEN Result("raise", NoValue, cache, TRUE, FALSE)
               ELSE Result("return", resp, [cache EXCEPT ![cache_path] = resp], TRUE, TRUE)
          [] OTHER ->
               Result("raise", NoValue, cache, FALSE, FALSE)

\* data_df.set_index('date'): KeyError when the dataframe has no 'date' column
set_index(df) ==
    IF df.empty THEN NoValue ELSE [df EXCEPT !.index = "date"]

\* get_crypto_data(poloniex_pair) of Cryptocurrency-Pricing-Analysis.py
get_crypto_data(poloniex_pair, resp) ==
    LET json_url == PoloUrl(poloniex_pair, end_date)
        r == get_json_data(json_url, PoloCachePath(poloniex_pair), resp)
    IN  IF r.outcome = "raise" THEN r
        ELSE IF set_index(r.value) = NoValue   \* KeyError, after the cache was written
             THEN [r EXCEPT !.outcome = "raise", !.value = NoValue]
             ELSE [r EXCEPT !.value = set_index(r.value)]

\* get_crypto_data(poloniex_pair) of crypto-tutorial.py: no cache at all
tutorial_get_crypto_data(poloniex_pair, resp) ==
    IF resp = RemoteError \/ set_index(resp) = NoValue
    THEN Result("raise", NoValue, cache, TRUE, FALSE)
    ELSE Result("return", set_index(resp), cache, TRUE, FALSE)

(***************************************************************************)
(* Dataframes with their cells: a series maps the timestamps of its index  *)
(* to values, a dataframe maps column names to series, a table is what     *)
(* pd.DataFrame builds from a dict of series.                              *)
(***************************************************************************)
\* Column labels, in the order the scripts list them
LabelNames == <<"BTC", "ETH", "LTC", "XRP", "ETC">>

NaN == -1     \* np.nan: the missing value (prices are never negative)

Range(s) == { s[i] : i \in DOMAIN s }

RECURSIVE SortedSeq(_)
\* the elements of a set of integers in ascending order
SortedSeq(S) ==
    IF S = {} THEN <<>>
    ELSE LET m == CHOOSE x \in S : \A y \in S : x <= y IN <<m>> \o SortedSeq(S \ {m})

\* A Python dict: keys in insertion order, a value for each key
EmptyDict == [keys |-> <<>>, val |-> <<>>]

\* d[k] = v: a new key goes last, a key already there keeps its place
DictSet(d, k, v) ==
    IF k \in Range(d.keys)
    THEN [keys |-> d.keys, val |-> [j \in DOMAIN d.keys |-> IF d.keys[j] = k THEN v ELSE d.val[j]]]
    ELSE [keys |-> Append(d.keys, k), val |-> Append(d.val, v)]

Returned(table) == [outcome |-> "return", table |-> table]
Raised(error) == [outcome |-> "raise", error |-> error]

\* pd.DataFrame(series_dict) with the rows kept only where every series has one
DataFrameInner(series_dict) ==
    LET all == UNION { DOMAIN series_dict.val[j] : j \in DOMAIN series_dict.val }
        idx == { t \in all : \A j \in DOMAIN series_dict.val : t \in DOMAIN series_dict.val[j] }
    IN  [index |-> SortedSeq(idx),
         columns |-> series_dict.keys,
         data |-> [j \in DOMAIN series_dict.keys |-> [t \in idx |-> series_dict.val[j][t]]]]

\* pd.DataFrame(series_dict) with the columns laid out in the order of LabelNames
DataFrameSortedColumns(series_dict) ==
    LET idx == UNION { DOMAIN series_dict.val[j] : j \in DOMAIN series_dict.val }
        pos(k) == CHOOSE i \in DOMAIN LabelNames : LabelNames[i] = k
        key(j) == CHOOSE k \in Range(series_dict.keys) :
                      Cardinality({k2 \in Range(series_dict.keys) : pos(k2) < pos(k)}) = j - 1
        src(j) == CHOOSE i \in DOMAIN series_dict.keys : series_dict.keys[i] = key(j)
    IN  [index |-> SortedSeq(idx),
         columns |-> [j \in DOMAIN series_dict.keys |-> key(j)],
         data |-> [j \in DOMAIN series_dict.keys |->
                     [t \in idx |-> IF t \in DOMAIN series_dict.val[src(j)]
                                    THEN series_dict.val[src(j)][t] ELSE NaN]]]

\* pd.DataFrame(series_dict): the index is the sorted union of the indexes of the
\* series, the columns are the keys in insertion order, and a series has NaN at
\* the rows its own index lacks
DataFrame(series_dict) ==
    LET idx == UNION { DOMAIN series_dict.val[j] : j \in DOMAIN series_dict.val }
    IN  [index |-> SortedSeq(idx),
         columns |-> series_dict.keys,
         data |-> [j \in DOMAIN series_dict.keys |->
                     [t \in idx |-> IF t \in DOMAIN series_dict.val[j]
                                    THEN series_dict.val[j][t] ELSE NaN]]]

RECURSIVE MergeLoop(_, _, _, _, _)
\* for index in range(len(dataframes)): series_dict[labels[index]] = dataframes[index][col]
MergeLoop(dfs, labs, col, index, series_dict) ==
    IF index > Len(dfs) THEN series_dict
    ELSE IF index > Len(labs) THEN Raised("IndexError")      \* labels[index]
    ELSE IF col \notin DOMAIN dfs[index] THEN Raised("KeyError")   \* dataframes[index][col]
    ELSE MergeLoop(dfs, labs, col, index + 1, DictSet(series_dict, labs[index], dfs[index][col]))

\* merge_dfs_on_column(dataframes, labels, col) of Cryptocurrency-Pricing-Analysis.py
merge_dfs_on_column(dfs, labs, col) ==
    LET series_dict == MergeLoop(dfs, labs, col, 1, EmptyDict)
    IN  IF "outcome" \in DOMAIN series_dict THEN series_dict
        ELSE Returned(DataFrame(series_dict))

RECURSIVE TutorialSeriesLoop(_, _, _, _)
\* for df in dataframes: series_arr.append(df[col])
TutorialSeriesLoop(dfs, col, index, series_arr) ==
    IF index > Len(dfs) THEN [outcome |-> "ok", value |-> series_arr]
    ELSE IF col \notin DOMAIN dfs[index] THEN Raised("KeyError")
    ELSE TutorialSeriesLoop(dfs, col, index + 1, Append(series_arr, dfs[index][col]))

RECURSIVE TutorialDictLoop(_, _, _, _)
\* for index in range(len(series_arr)): series_dict[labels[index]] = series_arr[index]
TutorialDictLoop(series_arr, labs, index, series_dict) ==
    IF index > Len(series_arr) THEN series_dict
    ELSE IF index > Len(labs) THEN Raised("IndexError")
    ELSE TutorialDictLoop(series_arr, labs, index + 1,
                          DictSet(series_dict, labs[index], series_arr[index]))

\* merge_dfs_on_column(dataframes, labels, col) of crypto-tutorial.py
tutorial_merge_dfs_on_column(dfs, labs, col) ==
    LET series_arr == TutorialSeriesLoop(dfs, col, 1, <<>>)
    IN  IF series_arr.outcome = "raise" THEN series_arr
        ELSE LET series_dict == TutorialDictLoop(series_arr.value, labs, 1, EmptyDict)
             IN  IF "outcome" \in DOMAIN series_dict THEN series_dict
                 ELSE Returned(DataFrame(series_dict))

\* The value of table cell (t, label); NaN where the table has no such row
Cell(table, t, label) ==
    LET j == CHOOSE i \in DOMAIN table.columns : table.columns[i] = label
    IN  IF t \in DOMAIN table.data[j] THEN table.data[j][t] ELSE NaN

\* df[label] of a table: the column as a series over the rows of the table
Column(table, label) ==
    table.data[CHOOSE i \in DOMAIN table.columns : table.columns[i] = label]

\* Previous row's value carried into a missing cell
ForwardFill(series, index) ==
    [t \in DOMAIN series |->
        IF series[t] # NaN THEN series[t]
        ELSE LET above == { u \in DOMAIN series : u < t /\ series[u] # NaN }
             IN  IF above = {} THEN NaN
                 ELSE series[CHOOSE u \in above : \A w \in above : w <= u]]

\* df.replace(old, new) followed by a forward fill of the missing cells
ReplaceAndFill(table, old, new) ==
    [table EXCEPT !.data =
        [j \in DOMAIN table.data |->
            ForwardFill([t \in DOMAIN table.data[j] |->
                            IF table.data[j][t] = old THEN new ELSE table.data[j][t]],
                        table.index)]]

\* df.replace(old, new, inplace=True): every cell equal to old becomes new
ReplaceValue(table, old, new) ==
    [table EXCEPT !.data =
        [j \in DOMAIN table.data |->
            [t \in DOMAIN table.data[j] |->
                IF table.data[j][t] = old THEN new ELSE table.data[j][t]]]]

RECURSIVE SumOver(_, _)
\* sum of f over the set S of its arguments
SumOver(f, S) ==
    IF S = {} THEN 0
    ELSE LET x == CHOOSE y \in S : TRUE IN f[x] + SumOver(f, S \ {x})

\* Row mean that counts a missing cell as 0
RowMeanZeroFilled(table, t) ==
    LET defined == { j \in DOMAIN table.data : table.data[j][t] # NaN }
        total == SumOver([j \in DOMAIN table.data |-> table.data[j][t]], defined)
    IN  IF DOMAIN table.data = {} THEN NaN
        ELSE total \div Len(table.columns)

\* One row of df.mean(axis=1): missing cells are skipped (skipna), a row with no
\* value at all has mean NaN.  Prices are multiples of 12, so that the division
\* by a count of 1 .. 4 exchanges is exact.
RowMean(table, t) ==
    LET defined == { j \in DOMAIN table.data : table.data[j][t] # NaN }
        total == SumOver([j \in DOMAIN table.data |-> table.data[j][t]], defined)
    IN  IF defined = {} THEN NaN
        ELSE total \div Cardinality(defined)

\* df.mean(axis=1): a series over the rows of the table
MeanAxis1(table) == [t \in Range(table.index) |-> RowMean(table, t)]

\* The series on the rows of the table: NaN where the series has no row, the
\* rows of the series that the table lacks are left out
Reindex(series, table) ==
    [t \in Range(table.index) |-> IF t \in DOMAIN series THEN series[t] ELSE NaN]

\* table[label] = series with the table grown to the rows of the series
SetTableColumnOuter(table, label, series) ==
    LET idx == Range(table.index) \cup DOMAIN series
        grown == [index |-> SortedSeq(idx),
                  columns |-> table.columns,
                  data |-> [j \in DOMAIN table.data |->
                              [t \in idx |-> IF t \in DOMAIN table.data[j]
                                             THEN table.data[j][t] ELSE NaN]]]
        col == [t \in idx |-> IF t \in DOMAIN series THEN series[t] ELSE NaN]
    IN  IF label \in Range(table.columns)
        THEN [grown EXCEPT !.data =
                [j \in DOMAIN grown.data |->
                    IF grown.columns[j] = label THEN col ELSE grown.data[j]]]
        ELSE [grown EXCEPT !.columns = Append(grown.columns, label),
                           !.data = Append(grown.data, col)]

\* table[label] = series: the series is aligned to the rows of the table, which
\* stay as they are; a new column goes last
SetTableColumn(table, label, series) ==
    IF label \in Range(table.columns)
    THEN [table EXCEPT !.data =
            [j \in DOMAIN table.data |->
                IF table.columns[j] = label THEN Reindex(series, table) ELSE table.data[j]]]
    ELSE [table EXCEPT !.columns = Append(table.columns, label),
                       !.data = Append(table.data, Reindex(series, table))]

\* x * y on floats: NaN if either is
Times(x, y) == IF x = NaN \/ y = NaN THEN NaN ELSE x * y

\* a * b with a value missing from either series taken as 0
SeriesMulZeroFilled(a, b) ==
    [t \in DOMAIN a \cup DOMAIN b |->
        Times(IF t \in DOMAIN a /\ a[t] # NaN THEN a[t] ELSE 0,
              IF t \in DOMAIN b /\ b[t] # NaN THEN b[t] ELSE 0)]

\* a * b on two series: aligned on the union of the two indexes, NaN where
\* either series has no row or no value
SeriesMul(a, b) ==
    [t \in DOMAIN a \cup DOMAIN b |->
        IF t \in DOMAIN a /\ t \in DOMAIN b THEN Times(a[t], b[t]) ELSE NaN]

\* The index of a dataframe: all its columns share it
DfIndex(df) == DOMAIN df[CHOOSE c \in DOMAIN df : TRUE]

\* df[name] = series on a dataframe: the series is aligned to the index of the
\* dataframe, rows it lacks get NaN, rows the dataframe lacks are dropped
SetDfColumn(df, name, series) ==
    [c \in DOMAIN df \cup {name} |->
        IF c = name
        THEN [t \in DfIndex(df) |-> IF t \in DOMAIN series THEN series[t] ELSE NaN]
        ELSE df[c]]

\* d[k] of a Python dict
DictGet(d, k) == d.val[CHOOSE j \in DOMAIN d.keys : d.keys[j] = k]

(***************************************************************************)
(* SpecMerge: merge_dfs_on_column on every list of up to MaxDfs daily      *)
(* series and every list of up to MaxDfs labels, then on both lists        *)
(* permuted together.                                                      *)
(***************************************************************************)
WeightedPrice == "Weighted Price"

\* A price that tells which series and which day it belongs to
Price(i, t) == 10 * i + t

\* Series i of an argument list: daily rows from day lo to day hi
DailySeries(i, lo, hi) == [t \in lo..hi |-> Price(i, t)]

\* Series that start on day 1 or last until day MaxDay (an exchange that closed,
\* one that opened late)
SeriesChoices(i) ==
    { DailySeries(i, 1, hi) : hi \in 1..MaxDay } \cup { DailySeries(i, lo, MaxDay) : lo \in 1..MaxDay }

RECURSIVE SeriesLists(_)
\* Lists of n series, series i taken from SeriesChoices(i)
SeriesLists(n) ==
    IF n = 0 THEN { <<>> }
    ELSE { Append(l, [c \in {WeightedPrice} |-> x]) : l \in SeriesLists(n - 1), x \in SeriesChoices(n) }

DataframeLists == UNION { SeriesLists(n) : n \in 0..MaxDfs }

\* Label lists, duplicates included; a label is first used only after the labels
\* before it in LabelNames (labels are opaque, so this loses no case)
LabelLists ==
    UNION { { l \in [1..n -> Range(SubSeq(LabelNames, 1, MaxDfs))] :
                \A i \in 1..n : \A k \in 2..MaxDfs :
                    l[i] = LabelNames[k] => \E j \in 1..(i-1) : l[j] = LabelNames[k-1] }
            : n \in 0..MaxDfs }

\* p applied to a list: element i of the result is element p[i] of the list
Permute(s, p) == [i \in DOMAIN s |-> s[p[i]]]

\* Rotation, exchange of the first two, and reversal of a list of n elements
ListPermutations(n) ==
    { [i \in 1..n |-> IF i = n THEN 1 ELSE i + 1],
      [i \in 1..n |-> IF i = 1 /\ n > 1 THEN 2 ELSE IF i = 2 THEN 1 ELSE i],
      [i \in 1..n |-> n + 1 - i] }

NoResult == [outcome |-> "none"]

MergeIdle ==
    /\ dataframes = <<>>
    /\ labels = <<>>
    /\ mpc = "idle"
    /\ merged = NoResult
    /\ merged_tut = NoResult
    /\ perm = <<>>
    /\ merged_perm = NoResult

(***************************************************************************)
(* SpecFetch: any sequence of fetch calls over runs of the script.  The    *)
(* cache outlives a run; end_date is taken anew by each run.               *)
(***************************************************************************)
\* The parameters that go into the remote query next to the source id
QuandlParams == <<>>
PoloParams(end) == <<start_date, end, pediod>>

FetchKeys ==
    { <<q, QuandlParams>> : q \in QuandlIds }
        \cup { <<p, PoloParams(e)>> : p \in PoloPairs, e \in 0..MaxRuns }

NoCall ==
    [fn |-> "none", id |-> <<>>, params |-> <<>>, path |-> <<>>, before |-> NoValue,
     resp |-> NoValue, outcome |-> "none", value |-> NoValue, df |-> NoValue,
     remote |-> FALSE, wrote |-> FALSE]

CallRecord(fn, id, params, path, before, resp, r) ==
    [fn |-> fn, id |-> id, params |-> params, path |-> path, before |-> before,
     resp |-> resp, outcome |-> r.outcome, value |-> r.value, df |-> r.df,
     remote |-> r.remote, wrote |-> r.wrote]

PipelineIdle ==
    /\ ipc = "idle"
    /\ exchange_data = EmptyDict
    /\ btc_usd_datasets = NoResult
    /\ altcoin_data = EmptyDict

IndexIdle ==
    /\ PipelineIdle
    /\ combined_df = NoResult

CorrIdle ==
    /\ new_year = 0
    /\ cpc = "idle"
    /\ corr_call = NoResult

FetchIdle ==
    /\ cache = [p \in CachePaths |-> Absent]
    /\ end_date = 0
    /\ call = NoCall
    /\ writes = [k \in FetchKeys |-> 0]
    /\ fetched = {}

WritesBelowCap == \A k \in FetchKeys : writes[k] < MaxWrites

InitFetch ==
    /\ cache \in [CachePaths -> {Absent, Corrupt}]
    /\ end_date = 0
    /\ call = NoCall
    /\ writes = [k \in FetchKeys |-> 0]
    /\ fetched = {}
    /\ MergeIdle
    /\ IndexIdle
    /\ CorrIdle

Record(fn, id, params, path, resp, r) ==
    /\ cache' = r.cache
    /\ call' = CallRecord(fn, id, params, path, cache[path], resp, r)
    /\ writes' = IF r.wrote THEN [writes EXCEPT ![<<id, params>>] = @ + 1] ELSE writes
    /\ fetched' = IF r.outcome = "return" THEN fetched \cup {<<id, params>>} ELSE fetched
    /\ UNCHANGED <<end_date, mergeVars, indexVars, corrVars>>

QuandlFetch ==
    \E quandl_id \in QuandlIds : \E resp \in QuandlResponses(quandl_id) :
        /\ WritesBelowCap
        /\ Record("get_quandl_data", quandl_id, QuandlParams, QuandlCachePath(quandl_id),
                  resp, get_quandl_data(quandl_id, resp))

CryptoFetch ==
    \E pair \in PoloPairs : \E resp \in JsonResponses(PoloUrl(pair, end_date)) :
        /\ WritesBelowCap
        /\ Record("get_crypto_data", pair, PoloParams(end_date), PoloCachePath(pair),
                  resp, get_crypto_data(pair, resp))

TutorialFetch ==
    \E pair \in TutorialPairs : \E resp \in JsonResponses(TutorialUrl(pair, end_date)) :
        LET r == tutorial_get_crypto_data(pair, resp)
        IN  /\ call' = CallRecord("tutorial_get_crypto_data", pair, <<>>, <<>>, Absent, resp, r)
            /\ UNCHANGED <<cache, end_date, writes, fetched, mergeVars, indexVars, corrVars>>

\* The script is run again later: end_date = datetime.now()
NewRun ==
    /\ end_date < MaxRuns
    /\ end_date' = end_date + 1
    /\ UNCHANGED <<cache, call, writes, fetched, mergeVars, indexVars, corrVars>>

NextFetch == QuandlFetch \/ CryptoFetch \/ TutorialFetch \/ NewRun

SpecFetch == InitFetch /\ [][NextFetch]_vars

(***************************************************************************)
(* SpecMerge                                                               *)
(***************************************************************************)
InitMerge ==
    /\ dataframes \in DataframeLists
    /\ labels \in LabelLists
    /\ mpc = "args"
    /\ merged = NoResult
    /\ merged_tut = NoResult
    /\ perm = <<>>
    /\ merged_perm = NoResult
    /\ FetchIdle
    /\ IndexIdle
    /\ CorrIdle

Merge ==
    /\ mpc = "args"
    /\ merged' = merge_dfs_on_column(dataframes, labels, WeightedPrice)
    /\ mpc' = "merged"
    /\ UNCHANGED <<dataframes, labels, merged_tut, perm, merged_perm, fetchVars, indexVars, corrVars>>

TutorialMerge ==
    /\ mpc = "merged"
    /\ merged_tut' = tutorial_merge_dfs_on_column(dataframes, labels, WeightedPrice)
    /\ mpc' = "both"
    /\ UNCHANGED <<dataframes, labels, merged, perm, merged_perm, fetchVars, indexVars, corrVars>>

MergePermuted ==
    /\ mpc = "both"
    /\ Len(dataframes) = Len(labels)
    /\ \E p \in ListPermutations(Len(labels)) :
          /\ perm' = p
          /\ merged_perm' = merge_dfs_on_column(Permute(dataframes, p), Permute(labels, p),
                                                WeightedPrice)
    /\ mpc' = "permuted"
    /\ UNCHANGED <<dataframes, labels, merged, merged_tut, fetchVars, indexVars, corrVars>>

NextMerge == Merge \/ TutorialMerge \/ MergePermuted

SpecMerge == InitMerge /\ [][NextMerge]_vars


(***************************************************************************)
(* SpecIndex: the script from the downloaded exchange series to the USD    *)
(* prices of the altcoins.                                                 *)
(***************************************************************************)
\* exchange_data keys in insertion order: KRAKEN, then the exchanges list
ExchangeNames == <<"KRAKEN", "COINBASE", "BITSTAMP", "ITBIT">>

altcoins == <<"ETH", "LTC", "XRP", "ETC", "STR", "DASH", "SC", "XMR", "XEM">>

AvgColumn == "avg_btc_price_usd"
WeightedAverage == "weightedAverage"
PriceUsd == "price_usd"

TradeDays == 1..MaxTradeDay

\* The weighted price exchange i reports for day t when it traded
ExchangePrice(i, t) == 12 * (i + t)

\* What an exchange can have reported: daily rows from its first to its last day
\* (one of them day 1 or day MaxTradeDay), with at most one day of downtime
\* reported as price 0
ExchangeSeries(i) ==
    LET ranges == { <<1, hi>> : hi \in TradeDays } \cup { <<lo, MaxTradeDay>> : lo \in TradeDays }
    IN  UNION { { [t \in r[1]..r[2] |-> IF t = down THEN 0 ELSE ExchangePrice(i, t)] :
                    down \in {0} \cup (r[1]..r[2]) } : r \in ranges }

RECURSIVE ExchangeLists(_)
\* The dataframes of the first n exchanges
ExchangeLists(n) ==
    IF n = 0 THEN { <<>> }
    ELSE { Append(l, [c \in {WeightedPrice} |-> x]) : l \in ExchangeLists(n - 1), x \in ExchangeSeries(n) }

ExchangeDataChoices ==
    { [keys |-> ExchangeNames, val |-> l] : l \in ExchangeLists(Len(ExchangeNames)) }

\* The rate altcoin j traded at against bitcoin on day t (0 on some days)
Rate(j, t) == (j * t) % 5

\* The altcoin dataframes get_crypto_data returns: altcoin j has daily rows from
\* day first or the day after to day MaxTradeDay + 1
AltcoinData(first) ==
    [keys |-> altcoins,
     val |-> [j \in DOMAIN altcoins |->
                [c \in {WeightedAverage} |->
                    [t \in (first + (j % 2))..(MaxTradeDay + 1) |-> Rate(j, t)]]]]

InitIndex ==
    /\ ipc = "exchanges"
    /\ exchange_data \in ExchangeDataChoices
    /\ btc_usd_datasets = NoResult
    /\ altcoin_data = EmptyDict
    /\ combined_df = NoResult
    /\ FetchIdle
    /\ MergeIdle
    /\ CorrIdle

\* btc_usd_datasets = merge_dfs_on_column(list(exchange_data.values()),
\*                                        list(exchange_data.keys()), 'Weighted Price')
MergeExchanges ==
    /\ ipc = "exchanges"
    /\ LET r == merge_dfs_on_column(exchange_data.val, exchange_data.keys, WeightedPrice)
       IN  /\ r.outcome = "return"
           /\ btc_usd_datasets' = r.table
    /\ ipc' = "merged"
    /\ UNCHANGED <<exchange_data, altcoin_data, combined_df, fetchVars, mergeVars, corrVars>>

\* btc_usd_datasets.replace(0, np.nan, inplace=True)
RemoveZeros ==
    /\ ipc = "merged"
    /\ btc_usd_datasets' = ReplaceValue(btc_usd_datasets, 0, NaN)
    /\ ipc' = "cleaned"
    /\ UNCHANGED <<exchange_data, altcoin_data, combined_df, fetchVars, mergeVars, corrVars>>

\* btc_usd_datasets['avg_btc_price_usd'] = btc_usd_datasets.mean(axis=1)
Average ==
    /\ ipc = "cleaned"
    /\ btc_usd_datasets' = SetTableColumn(btc_usd_datasets, AvgColumn, MeanAxis1(btc_usd_datasets))
    /\ ipc' = "averaged"
    /\ UNCHANGED <<exchange_data, altcoin_data, combined_df, fetchVars, mergeVars, corrVars>>

\* for altcoin in altcoins: altcoin_data[altcoin] = get_crypto_data(coinpair)
PullAltcoins ==
    /\ ipc = "averaged"
    /\ \E first \in TradeDays : altcoin_data' = AltcoinData(first)
    /\ ipc' = "altcoins"
    /\ UNCHANGED <<exchange_data, btc_usd_datasets, combined_df, fetchVars, mergeVars, corrVars>>

\* for altcoin in altcoin_data.keys():
\*     altcoin_data[altcoin]['price_usd'] =
\*         altcoin_data[altcoin]['weightedAverage'] * btc_usd_datasets['avg_btc_price_usd']
ConvertToUsd ==
    /\ ipc = "altcoins"
    /\ altcoin_data' =
          [altcoin_data EXCEPT !.val =
              [j \in DOMAIN altcoin_data.val |->
                  SetDfColumn(altcoin_data.val[j], PriceUsd,
                              SeriesMul(altcoin_data.val[j][WeightedAverage],
                                        Column(btc_usd_datasets, AvgColumn)))]]
    /\ ipc' = "converted"
    /\ UNCHANGED <<exchange_data, btc_usd_datasets, combined_df, fetchVars, mergeVars, corrVars>>

NextIndex == MergeExchanges \/ RemoveZeros \/ Average \/ PullAltcoins \/ ConvertToUsd

SpecIndex == InitIndex /\ [][NextIndex]_vars

(***************************************************************************)
(* SpecRun: one run of the script from its first download to the final     *)
(* combined_df.  A download can fail, which ends the run.                  *)
(***************************************************************************)
\* What an exchange reports in a run: daily rows from day 1 or day 2 to day
\* MaxTradeDay, with at most one day of downtime reported as price 0
RunExchangeSeries(i) ==
    UNION { { [t \in lo..MaxTradeDay |-> IF t = down THEN 0 ELSE ExchangePrice(i, t)] :
                down \in {0} \cup (lo..MaxTradeDay) } : lo \in {1, 2} }

RECURSIVE RunExchangeLists(_)
\* The dataframes of the first n exchanges
RunExchangeLists(n) ==
    IF n = 0 THEN { <<>> }
    ELSE { Append(l, [c \in {WeightedPrice} |-> x]) :
            l \in RunExchangeLists(n - 1), x \in RunExchangeSeries(n) }

\* The first n entries of a dict
DictPrefix(dict, n) == [keys |-> SubSeq(dict.keys, 1, n), val |-> SubSeq(dict.val, 1, n)]

BtcColumn == "BTC"

InitRun ==
    /\ ipc = "start"
    /\ exchange_data = EmptyDict
    /\ btc_usd_datasets = NoResult
    /\ altcoin_data = EmptyDict
    /\ combined_df = NoResult
    /\ FetchIdle
    /\ MergeIdle
    /\ CorrIdle

\* btc_usd_kraken = get_quandl_data('BCHARTS/KRAKENUSD'); exchange_data['KRAKEN'] = ...
\* for exchange in exchanges: exchange_data[exchange] = get_quandl_data(exchange_code)
PullExchanges ==
    /\ ipc = "start"
    /\ \E l \in RunExchangeLists(Len(ExchangeNames)) :
          exchange_data' = [keys |-> ExchangeNames, val |-> l]
    /\ ipc' = "exchanges"
    /\ UNCHANGED <<btc_usd_datasets, altcoin_data, combined_df, fetchVars, mergeVars, corrVars>>

\* The k-th get_quandl_data raising with the exception swallowed: the script goes
\* on with the exchanges downloaded so far
PullExchangesSkipsFailed ==
    /\ ipc = "start"
    /\ \E k \in DOMAIN ExchangeNames \ {1} : \E l \in RunExchangeLists(k - 1) :
          exchange_data' = [keys |-> SubSeq(ExchangeNames, 1, k - 1), val |-> l]
    /\ ipc' = "exchanges"
    /\ UNCHANGED <<btc_usd_datasets, altcoin_data, combined_df, fetchVars, mergeVars, corrVars>>

\* The same, with the k-th get_quandl_data raising: the exception ends the script
PullExchangesFails ==
    /\ ipc = "start"
    /\ \E k \in DOMAIN ExchangeNames : \E l \in RunExchangeLists(k - 1) :
          exchange_data' = [keys |-> SubSeq(ExchangeNames, 1, k - 1), val |-> l]
    /\ ipc' = "aborted"
    /\ UNCHANGED <<btc_usd_datasets, altcoin_data, combined_df, fetchVars, mergeVars, corrVars>>

\* The altcoin loop with the k-th get_crypto_data raising
PullAltcoinsFails ==
    /\ ipc = "averaged"
    /\ \E first \in TradeDays, k \in DOMAIN altcoins :
          altcoin_data' = DictPrefix(AltcoinData(first), k - 1)
    /\ ipc' = "aborted"
    /\ UNCHANGED <<exchange_data, btc_usd_datasets, combined_df, fetchVars, mergeVars, corrVars>>

\* combined_df = merge_dfs_on_column(list(altcoin_data.values()),
\*                                   list(altcoin_data.keys()), 'price_usd')
MergeAltcoins ==
    /\ ipc = "converted"
    /\ LET r == merge_dfs_on_column(altcoin_data.val, altcoin_data.keys, PriceUsd)
       IN  /\ r.outcome = "return"
           /\ combined_df' = r.table
    /\ ipc' = "combined"
    /\ UNCHANGED <<exchange_data, btc_usd_datasets, altcoin_data, fetchVars, mergeVars, corrVars>>

\* combined_df['BTC'] = btc_usd_datasets['avg_btc_price_usd']
AddBtc ==
    /\ ipc = "combined"
    /\ combined_df' = SetTableColumn(combined_df, BtcColumn, Column(btc_usd_datasets, AvgColumn))
    /\ ipc' = "final"
    /\ UNCHANGED <<exchange_data, btc_usd_datasets, altcoin_data, fetchVars, mergeVars, corrVars>>

NextRun ==
    \/ PullExchanges \/ PullExchangesFails
    \/ MergeExchanges \/ RemoveZeros \/ Average
    \/ PullAltcoins \/ PullAltcoinsFails
    \/ ConvertToUsd \/ MergeAltcoins \/ AddBtc

SpecRun == InitRun /\ [][NextRun]_vars

(***************************************************************************)
(* SpecCorr: the correlation tables and heatmaps of the years 2016 and     *)
(* 2017, computed by both scripts on a combined_df of two coins.           *)
(***************************************************************************)
CorrDays == 1..MaxCorrDay

CorrColumns == <<"ETH", "BTC">>

PriceLevels == {1, 2}

\* The ETH column of combined_df: no value before the coin was listed, then a
\* price per day, but for at most one day with no value or with price 0
AltcoinColumns ==
    UNION { { [t \in CorrDays |-> IF t < s THEN NaN
                                  ELSE IF t = gap[1] THEN gap[2] ELSE f[t]] :
                f \in [s..MaxCorrDay -> PriceLevels],
                gap \in {<<0, NaN>>} \cup ((s..MaxCorrDay) \X {NaN, 0}) } :
            s \in 1..(MaxCorrDay + 1) }

\* The BTC column of combined_df: a price per day
BtcColumns == [CorrDays -> PriceLevels]

CombinedChoices ==
    { [index |-> [t \in CorrDays |-> t], columns |-> CorrColumns, data |-> <<eth, btc>>] :
        eth \in AltcoinColumns, btc \in BtcColumns }

\* combined_df.index.year: the days before new_year lie in 2016, the others in 2017
Year(t) == IF t < new_year THEN 2016 ELSE 2017

RECURSIVE GCD(_, _)
GCD(a, b) == IF b = 0 THEN a ELSE GCD(b, a % b)

LCM(a, b) == (a * b) \div GCD(a, b)

Abs(x) == IF x < 0 THEN 0 - x ELSE x

Sign(x) == IF x < 0 THEN 0 - 1 ELSE IF x > 0 THEN 1 ELSE 0

\* A float is kept as the fraction n / d in lowest terms; as in IEEE arithmetic
\* x / 0 is inf or -inf (d = 0, n = 1 or -1) and 0 / 0 is nan (d = 0, n = 0)
Frac(n, d) ==
    IF d = 0 THEN [n |-> Sign(n), d |-> 0]
    ELSE LET g == GCD(Abs(n), d) IN [n |-> n \div g, d |-> d \div g]

nan == [n |-> 0, d |-> 0]

Float(x) == IF x = NaN THEN nan ELSE [n |-> x, d |-> 1]

\* The cells of a table of prices as floats
AsFloats(table) ==
    [table EXCEPT !.data =
        [j \in DOMAIN table.data |-> [t \in DOMAIN table.data[j] |-> Float(table.data[j][t])]]]

\* df[df.index.year == year], with the last row before the year kept as well
FilterYearKeepPrior(table, year) ==
    LET before == { t \in Range(table.index) : Year(t) < year }
        keep == { t \in Range(table.index) :
                    Year(t) = year \/ (t \in before /\ \A u \in before : u <= t) }
    IN  [index |-> SortedSeq(keep),
         columns |-> table.columns,
         data |-> [j \in DOMAIN table.data |-> [t \in keep |-> table.data[j][t]]]]

\* df[df.index.year == year]: the rows of that year, in the order of the index
FilterYear(table, year) ==
    LET keep == { t \in Range(table.index) : Year(t) = year }
    IN  [index |-> SelectSeq(table.index, LAMBDA t : t \in keep),
         columns |-> table.columns,
         data |-> [j \in DOMAIN table.data |-> [t \in keep |-> table.data[j][t]]]]

\* cur / prev - 1 on floats
Change(cur, prev) == IF cur = NaN \/ prev = NaN THEN nan ELSE Frac(cur - prev, prev)

\* The row before row t of a table
PrevRow(table, t) ==
    table.index[(CHOOSE k \in DOMAIN table.index : table.index[k] = t) - 1]

\* df.pct_change(), periods=1, fill_method='pad': the missing cells are forward
\* filled, then each cell is divided by the one of the row before, minus 1.  The
\* first row has no row before.  pandas up to 0.22 then puts nan back where the
\* cell itself was missing (masked), later versions leave the 0 of the fill.
pct_change(table, masked) ==
    [table EXCEPT !.data =
        [j \in DOMAIN table.data |->
            LET data == ForwardFill(table.data[j], table.index)
            IN  [t \in Range(table.index) |->
                    IF t = table.index[1] THEN nan
                    ELSE IF masked /\ table.data[j][t] = NaN THEN nan
                    ELSE Change(data[t], data[PrevRow(table, t)])]]]

RECURSIVE LcmOver(_, _)
\* least common multiple of f over the set S of its arguments
LcmOver(f, S) ==
    IF S = {} THEN 1
    ELSE LET x == CHOOSE y \in S : TRUE IN LCM(f[x], LcmOver(f, S \ {x}))

Undefined == [def |-> FALSE]

\* The coefficient r, kept as its sign and its square num / den in lowest terms
Coefficient(c, vx, vy) ==
    LET g == GCD(c * c, vx * vy)
    IN  [def |-> TRUE, sign |-> Sign(c), num |-> (c * c) \div g, den |-> (vx * vy) \div g]

\* Pearson's r with a flat series taken as uncorrelated with everything
PearsonFlatIsZero(x, y) ==
    LET obs == { t \in DOMAIN x : x[t] # nan /\ y[t] # nan }
    IN  IF obs = {} \/ \E t \in obs : x[t].d = 0 \/ y[t].d = 0 THEN [def |-> TRUE, sign |-> 0, num |-> 0, den |-> 1]
        ELSE LET n == Cardinality(obs)
                 lx == LcmOver([t \in obs |-> x[t].d], obs)
                 ly == LcmOver([t \in obs |-> y[t].d], obs)
                 X == [t \in obs |-> x[t].n * (lx \div x[t].d)]
                 Y == [t \in obs |-> y[t].n * (ly \div y[t].d)]
                 c == n * SumOver([t \in obs |-> X[t] * Y[t]], obs) - SumOver(X, obs) * SumOver(Y, obs)
                 vx == n * SumOver([t \in obs |-> X[t] * X[t]], obs) - SumOver(X, obs) * SumOver(X, obs)
                 vy == n * SumOver([t \in obs |-> Y[t] * Y[t]], obs) - SumOver(Y, obs) * SumOver(Y, obs)
             IN  IF vx = 0 \/ vy = 0 THEN [def |-> TRUE, sign |-> 0, num |-> 0, den |-> 1]
                 ELSE Coefficient(c, vx, vy)

\* Pearson's r of two columns over the rows where both have a value
\* (min_periods=1): covariance over the root of the product of the variances.
\* The result is nan, and nothing is raised, when no row has both values, when
\* a variance is 0 (0 / 0), and when an inf takes part (inf - inf).  Scaling a
\* column by a positive factor leaves r as it is, so each column is scaled to
\* integers first.
Pearson(x, y) ==
    LET obs == { t \in DOMAIN x : x[t] # nan /\ y[t] # nan }
    IN  IF obs = {} \/ \E t \in obs : x[t].d = 0 \/ y[t].d = 0 THEN Undefined
        ELSE LET n == Cardinality(obs)
                 lx == LcmOver([t \in obs |-> x[t].d], obs)
                 ly == LcmOver([t \in obs |-> y[t].d], obs)
                 X == [t \in obs |-> x[t].n * (lx \div x[t].d)]
                 Y == [t \in obs |-> y[t].n * (ly \div y[t].d)]
                 c == n * SumOver([t \in obs |-> X[t] * Y[t]], obs) - SumOver(X, obs) * SumOver(Y, obs)
                 vx == n * SumOver([t \in obs |-> X[t] * X[t]], obs) - SumOver(X, obs) * SumOver(X, obs)
                 vy == n * SumOver([t \in obs |-> Y[t] * Y[t]], obs) - SumOver(Y, obs) * SumOver(Y, obs)
             IN  IF vx = 0 \/ vy = 0 THEN Undefined
                 ELSE Coefficient(c, vx, vy)

\* df.corr(method='pearson'): one coefficient per pair of columns
corr(df) ==
    [columns |-> df.columns,
     cells |-> [a \in DOMAIN df.data |-> [b \in DOMAIN df.data |-> Pearson(df.data[a], df.data[b])]]]

\* correlation_heatmap(df, ...): z = df.corr(method='pearson').as_matrix()
correlation_heatmap(df) == corr(df).cells

CorrCall(file, fn, year, df, matrix) ==
    [outcome |-> "return", file |-> file, fn |-> fn, year |-> year, input |-> df, matrix |-> matrix]

CorrYears == {2016, 2017}

InitCorr ==
    /\ combined_df \in CombinedChoices
    /\ new_year \in {2, MaxCorrDay}
    /\ cpc = "table"
    /\ corr_call = NoResult
    /\ PipelineIdle
    /\ FetchIdle
    /\ MergeIdle

\* combined_df_2016 = combined_df[combined_df.index.year == 2016]
\* combined_df_2016.pct_change().corr(method='pearson')        (and 2017 alike)
Correlations ==
    /\ cpc = "table"
    /\ \E year \in CorrYears, masked \in BOOLEAN :
          LET df == pct_change(FilterYear(combined_df, year), masked)
          IN  corr_call' = CorrCall("analysis", "corr", year, df, corr(df).cells)
    /\ cpc' = "done"
    /\ UNCHANGED <<combined_df, new_year, ipc, exchange_data, btc_usd_datasets, altcoin_data, fetchVars, mergeVars>>

\* correlation_heatmap(combined_df_2016.pct_change(), "...")   (and 2017 alike)
Heatmap ==
    /\ cpc = "table"
    /\ \E year \in CorrYears, masked \in BOOLEAN :
          LET df == pct_change(FilterYear(combined_df, year), masked)
          IN  corr_call' = CorrCall("analysis", "heatmap", year, df, correlation_heatmap(df))
    /\ cpc' = "done"
    /\ UNCHANGED <<combined_df, new_year, ipc, exchange_data, btc_usd_datasets, altcoin_data, fetchVars, mergeVars>>

\* crypto-tutorial.py: combined_df_2016 = combined_df[combined_df.index.year == 2016]
\*                     combined_df_2016.corr(method='pearson')  (and 2017 alike)
TutorialCorrelations ==
    /\ cpc = "table"
    /\ \E year \in CorrYears :
          LET df == AsFloats(FilterYear(combined_df, year))
          IN  corr_call' = CorrCall("tutorial", "corr", year, df, corr(df).cells)
    /\ cpc' = "done"
    /\ UNCHANGED <<combined_df, new_year, ipc, exchange_data, btc_usd_datasets, altcoin_data, fetchVars, mergeVars>>

\* crypto-tutorial.py: correlation_heatmap(combined_df_2016)    (and 2017 alike)
TutorialHeatmap ==
    /\ cpc = "table"
    /\ \E year \in CorrYears :
          LET df == AsFloats(FilterYear(combined_df, year))
          IN  corr_call' = CorrCall("tutorial", "heatmap", year, df, correlation_heatmap(df))
    /\ cpc' = "done"
    /\ UNCHANGED <<combined_df, new_year, ipc, exchange_data, btc_usd_datasets, altcoin_data, fetchVars, mergeVars>>

NextCorr == Correlations \/ Heatmap \/ TutorialCorrelations \/ TutorialHeatmap

SpecCorr == InitCorr /\ [][NextCorr]_vars

(***************************************************************************)
(* Properties of the cached fetch                                          *)
(***************************************************************************)
CachedCall == call.fn \in {"get_quandl_data", "get_crypto_data"}

RECURSIVE SumWrites(_)
SumWrites(keys) ==
    IF keys = {} THEN 0
    ELSE LET k == CHOOSE x \in keys : TRUE IN writes[k] + SumWrites(keys \ {k})

\* to_pickle calls made for a source id, over all query parameters
WritesOf(id) == SumWrites({k \in FetchKeys : k[1] = id})

CachedIds == QuandlIds \cup PoloPairs

HitReturnsEntry ==
    (CachedCall /\ IsFrame(call.before)) =>
        /\ call.df = call.before
        /\ ~call.remote
        /\ cache[call.path] = call.before

EntryIsKept ==
    \A p \in CachePaths : IsFrame(cache[p]) => cache'[p] = cache[p]

\* C1: once a readable cache entry exists for a source id, every later fetch of
\* that id returns exactly that entry, contacts no remote source and leaves the
\* entry as it is, whatever the time elapsed and wherever end_date has moved.
C1_CacheEntryAlwaysReturned == [](HitReturnsEntry) /\ [][EntryIsKept]_vars

\* A fetch served from an entry that an earlier run downloaded for another end date
C1_Witness ==
    /\ call.fn = "get_crypto_data"
    /\ IsFrame(call.before)
    /\ call.before.end < end_date
    /\ call.outcome = "return"

\* C2 as stated: the cache is written exactly once for each distinct
\* (source id, query parameters) pair that has been fetched successfully.
C2_WrittenOncePerSourceAndParams == \A k \in fetched : writes[k] = 1

\* C2 as amended: the cache is written at most once for each source id, whatever
\* the query parameters: by the first fetch of that id whose remote retrieval
\* returns a dataframe, and exactly once for an id that has been fetched
\* successfully; a later fetch of the id with another end date writes nothing.
C2_WrittenOncePerSource ==
    /\ \A id \in CachedIds :
          /\ WritesOf(id) <= 1
          /\ (\E k \in fetched : k[1] = id) => WritesOf(id) = 1
    /\ CachedCall =>
          (call.wrote <=> (call.before = Absent /\ IsFrame(call.resp)))
    /\ (CachedCall /\ call.wrote) =>
          (call.remote /\ cache[call.path] = call.df /\ call.df = call.resp)

\* A successful fetch with query parameters for which nothing was ever written
C2_Witness ==
    /\ call.fn = "get_crypto_data"
    /\ call.outcome = "return"
    /\ <<call.id, call.params>> \in fetched
    /\ writes[<<call.id, call.params>>] = 0
    /\ WritesOf(call.id) = 1

\* C3 as stated: a cache entry that fails to deserialize is treated as a miss:
\* the remote retrieval runs, its result overwrites the entry and is returned,
\* and no error reaches the caller.
C3_CorruptEntryIsRefetched ==
    (CachedCall /\ call.before = Corrupt /\ IsFrame(call.resp) /\ ~call.resp.empty) =>
        /\ call.outcome = "return"
        /\ call.remote
        /\ call.df = call.resp
        /\ cache[call.path] = call.resp

\* C4 as stated: with no usable cache entry, a remote call that fails or answers
\* with no data makes the fetch raise; it never returns an empty series.
C4_NoDataRaises ==
    (call.fn # "none" /\ ~IsFrame(call.before)
        /\ (call.resp = RemoteError \/ (IsFrame(call.resp) /\ call.resp.empty))) =>
        call.outcome = "raise"

\* C17: a cache entry is created only by a download whose result the fetch can
\* return as a series: after a get_crypto_data or get_quandl_data call that found
\* no entry and ended in an error there is still no entry for that source, and
\* no call fails on an entry it read from the cache instead of asking the remote
\* source again.
C17_NoEntryAfterFailedCall ==
    /\ (CachedCall /\ call.outcome = "raise" /\ call.before = Absent) =>
          (~call.wrote /\ cache[call.path] = Absent)
    /\ (CachedCall /\ IsFrame(call.before)) => call.outcome = "return"

(***************************************************************************)
(* Properties of merge_dfs_on_column                                       *)
(***************************************************************************)
UniqueLabels == \A i, j \in DOMAIN labels : labels[i] = labels[j] => i = j

WellFormedArgs == Len(dataframes) = Len(labels) /\ UniqueLabels

\* The timestamps of argument series i
InputIndex(i) == DOMAIN dataframes[i][WeightedPrice]

Days == 1..MaxDay

IsOuterJoin(r) ==
    /\ r.outcome = "return"
    /\ Range(r.table.index) = { t \in Days : \E i \in DOMAIN dataframes : t \in InputIndex(i) }
    /\ Len(r.table.index) = Cardinality(Range(r.table.index))
    /\ Range(r.table.columns) = Range(labels)
    /\ \A i \in DOMAIN dataframes : \A t \in Days :
          Cell(r.table, t, labels[i]) =
              IF t \in InputIndex(i) THEN dataframes[i][WeightedPrice][t] ELSE NaN

\* C5: for a list of series and an equally long list of unique labels, the merged
\* table has exactly the union of the input timestamps as rows, and cell
\* (t, label) holds that input's value at t, or is missing when the input has
\* no row at t.
C5_MergeIsOuterJoin ==
    /\ (mpc # "args" /\ WellFormedArgs) => IsOuterJoin(merged)
    /\ (mpc \in {"both", "permuted"} /\ WellFormedArgs) => IsOuterJoin(merged_tut)

\* Three series over days 1-3, 2-4 and 1-2 merged into 4 rows
C5_Witness ==
    /\ mpc = "both"
    /\ WellFormedArgs
    /\ Len(dataframes) = 3
    /\ InputIndex(1) = 1..3 /\ InputIndex(2) = 2..4 /\ InputIndex(3) = 1..2
    /\ merged.outcome = "return" /\ merged.table.index = <<1, 2, 3, 4>>
    /\ merged_tut.outcome = "return" /\ Len(merged_tut.table.index) = 4
    /\ Cell(merged.table, 4, labels[1]) = NaN
    /\ Cell(merged.table, 4, labels[2]) = Price(2, 4)

\* C6 as stated: merge_dfs_on_column fails, and returns no table, whenever the
\* two lists differ in length or the labels contain a duplicate.
C6_MismatchRaises ==
    /\ (mpc # "args" /\ ~WellFormedArgs) => merged.outcome = "raise"
    /\ (mpc \in {"both", "permuted"} /\ ~WellFormedArgs) => merged_tut.outcome = "raise"

\* C7: permuting the series and the labels together gives the same rows and the
\* same value in every (timestamp, label) cell, with the columns in the order
\* of the permuted labels.
C7_MergePermutes ==
    (mpc = "permuted" /\ UniqueLabels) =>
        /\ merged.outcome = "return" /\ merged_perm.outcome = "return"
        /\ merged_perm.table.index = merged.table.index
        /\ merged_perm.table.columns = Permute(labels, perm)
        /\ merged.table.columns = labels
        /\ \A l \in Range(labels) : \A t \in Days :
              Cell(merged_perm.table, t, l) = Cell(merged.table, t, l)

\* Three series with different rows merged in another order
C7_Witness ==
    /\ mpc = "permuted"
    /\ UniqueLabels
    /\ Len(labels) = 3
    /\ InputIndex(1) = 1..3 /\ InputIndex(2) = 2..4 /\ InputIndex(3) = 1..2
    /\ merged_perm.outcome = "return"
    /\ merged_perm.table.columns # merged.table.columns
    /\ Cell(merged_perm.table, 3, labels[3]) = NaN
    /\ Cell(merged_perm.table, 3, labels[1]) = Price(1, 3)

(***************************************************************************)
(* Properties of the zero removal, the index and the conversion            *)
(***************************************************************************)
\* The series exchange i was downloaded as
ExchangeInput(i) == exchange_data.val[i][WeightedPrice]

OnlyZerosBecomeMissing(before, after) ==
    /\ after.index = before.index
    /\ after.columns = before.columns
    /\ DOMAIN after.data = DOMAIN before.data
    /\ \A j \in DOMAIN before.data :
          /\ DOMAIN after.data[j] = DOMAIN before.data[j]
          /\ \A t \in DOMAIN before.data[j] :
                after.data[j][t] = IF before.data[j][t] = 0 THEN NaN ELSE before.data[j][t]

\* C8: replacing 0 by missing changes only the cells that hold exactly 0: every
\* other value is kept, a missing cell stays missing (nothing is filled in), and
\* the rows of the table are the same.
C8_OnlyZerosBecomeMissing ==
    [][(ipc = "merged" /\ ipc' = "cleaned") =>
          OnlyZerosBecomeMissing(btc_usd_datasets, btc_usd_datasets')]_vars

\* A cleaned table in which a reported 0 is now missing, a cell after it in the
\* same column kept its price, and a cell outside its exchange's rows is missing
C8_Witness ==
    /\ ipc = "cleaned"
    /\ \E i \in DOMAIN ExchangeNames : \E t \in DOMAIN ExchangeInput(i) :
          /\ ExchangeInput(i)[t] = 0
          /\ Cell(btc_usd_datasets, t, ExchangeNames[i]) = NaN
          /\ t + 1 \in DOMAIN ExchangeInput(i)
          /\ Cell(btc_usd_datasets, t + 1, ExchangeNames[i]) = ExchangePrice(i, t + 1)
    /\ \E i \in DOMAIN ExchangeNames : \E t \in Range(btc_usd_datasets.index) :
          /\ t \notin DOMAIN ExchangeInput(i)
          /\ t - 1 \in DOMAIN ExchangeInput(i)
          /\ Cell(btc_usd_datasets, t, ExchangeNames[i]) = NaN

\* The exchanges with a value in row t of the merged table
DefinedAt(t) == { l \in Range(ExchangeNames) : Cell(btc_usd_datasets, t, l) # NaN }

ValueOrZero(t, l) ==
    IF Cell(btc_usd_datasets, t, l) = NaN THEN 0 ELSE Cell(btc_usd_datasets, t, l)

Averaged == ipc \in {"averaged", "altcoins", "converted"}

\* C9: in every row, avg_btc_price_usd is the arithmetic mean of the exchange
\* values defined in that row (missing ones left out, not counted as 0): the
\* single value when one exchange is defined, missing when none is.
C9_IndexIsMeanOfDefined ==
    Averaged =>
        \A t \in Range(btc_usd_datasets.index) :
            LET avg == Cell(btc_usd_datasets, t, AvgColumn)
                n == Cardinality(DefinedAt(t))
            IN  /\ n = 0 => avg = NaN
                /\ n > 0 =>
                      /\ avg # NaN
                      /\ avg * n = ValueOrZero(t, "KRAKEN") + ValueOrZero(t, "COINBASE")
                                     + ValueOrZero(t, "BITSTAMP") + ValueOrZero(t, "ITBIT")
                /\ n = 1 => \A l \in DefinedAt(t) : avg = Cell(btc_usd_datasets, t, l)

\* An index with a row averaged over two exchanges out of four (one of the others
\* reported 0, one has no row) and a row with a single exchange
C9_Witness ==
    /\ ipc = "averaged"
    /\ \E t \in Range(btc_usd_datasets.index) :
          /\ Cardinality(DefinedAt(t)) = 2
          /\ \E i \in DOMAIN ExchangeNames : t \in DOMAIN ExchangeInput(i) /\ ExchangeInput(i)[t] = 0
          /\ \E i \in DOMAIN ExchangeNames : t \notin DOMAIN ExchangeInput(i)
          /\ Cell(btc_usd_datasets, t, AvgColumn) # NaN
    /\ \E t \in Range(btc_usd_datasets.index) :
          /\ DefinedAt(t) = {"ITBIT"}
          /\ Cell(btc_usd_datasets, t, AvgColumn) = Cell(btc_usd_datasets, t, "ITBIT")

\* The reference index at t: NaN where it has no row or no value
Reference(t) == Cell(btc_usd_datasets, t, AvgColumn)

\* C10: at every timestamp of an altcoin series, price_usd is weightedAverage
\* times the reference index where the index is defined, and missing where the
\* index has no row or no value; the conversion is never refused.
C10_ConversionPropagatesMissing ==
    /\ ipc = "altcoins" => ENABLED ConvertToUsd
    /\ ipc = "converted" =>
          \A j \in DOMAIN altcoin_data.val :
              LET df == altcoin_data.val[j]
              IN  /\ DOMAIN df[PriceUsd] = DOMAIN df[WeightedAverage]
                  /\ \A t \in DOMAIN df[WeightedAverage] :
                        df[PriceUsd][t] =
                            IF Reference(t) = NaN THEN NaN
                            ELSE df[WeightedAverage][t] * Reference(t)

\* An altcoin with rates 2 and 4 on days 1 and 2, against an index defined on
\* day 1 and missing on day 2, and with a row on a day the index has no row for
C10_Witness ==
    /\ ipc = "converted"
    /\ LET df == DictGet(altcoin_data, "LTC")
       IN  /\ DOMAIN df[WeightedAverage] = 1..(MaxTradeDay + 1)
           /\ df[WeightedAverage][1] = 2 /\ df[WeightedAverage][2] = 4
           /\ Reference(1) # NaN
           /\ 2 \in Range(btc_usd_datasets.index) /\ Reference(2) = NaN
           /\ df[PriceUsd][1] = 2 * Reference(1)
           /\ df[PriceUsd][2] = NaN
           /\ (MaxTradeDay + 1) \notin Range(btc_usd_datasets.index)
           /\ df[PriceUsd][MaxTradeDay + 1] = NaN

(***************************************************************************)
(* Properties of the yearly correlations                                   *)
(***************************************************************************)
\* The rows of combined_df that lie in a year
Window(year) == { t \in Range(combined_df.index) : Year(t) = year }

\* The window the last call of corr() was about, and its rows but the first
CallWindow == Window(corr_call.year)

AfterFirst == { t \in CallWindow : \E u \in CallWindow : u < t }

\* The row of the window just before row t
RowBefore(t) == CHOOSE u \in CallWindow : u < t /\ \A w \in CallWindow : w < t => w <= u

\* cell is the float (cur - prev) / prev
IsReturnOf(cell, cur, prev) == cell.d > 0 /\ cell.n * prev = (cur - prev) * cell.d

\* What corr() was handed holds, wherever a price and the price of the row
\* before are both there, the percentage change between the two
InputIsReturns ==
    \A j \in DOMAIN combined_df.data : \A t \in AfterFirst :
        LET cur == combined_df.data[j][t]
            prev == combined_df.data[j][RowBefore(t)]
        IN  (cur # NaN /\ prev # NaN /\ prev # 0)
                => /\ t \in DOMAIN corr_call.input.data[j]
                   /\ IsReturnOf(corr_call.input.data[j][t], cur, prev)

\* C11: every correlation table and every heatmap, of 2016 and of 2017, in both
\* scripts, is computed on the percentage changes (v[t] - v[t-1]) / v[t-1] of
\* the columns of the year, never on the prices themselves.
C11_CorrelatesReturns == (cpc = "done") => InputIsReturns

\* The returns were computed on the rows of the year only: the table handed to
\* corr() has the rows of the year, its first row has no return in any column,
\* and every other return is the change between two prices of the year.
ReturnsFromWindowOnly ==
    /\ Range(corr_call.input.index) = CallWindow
    /\ \A j \in DOMAIN corr_call.input.data :
          /\ DOMAIN corr_call.input.data[j] = CallWindow
          /\ \A t \in CallWindow \ AfterFirst : corr_call.input.data[j][t] = nan
          /\ \A t \in AfterFirst :
                \/ corr_call.input.data[j][t] = nan
                \/ \E u, w \in CallWindow :
                      /\ u < t /\ u <= w /\ w <= t
                      /\ corr_call.input.data[j][t] =
                            Change(combined_df.data[j][w], combined_df.data[j][u])

\* C12: the script filters the rows to the year before it takes the percentage
\* changes: the return of the first row of the year is nan in every column,
\* also when combined_df has a price the day before, and no return of the year
\* is computed from a price of another year.
C12_ReturnsAfterFilter ==
    (cpc = "done" /\ corr_call.file = "analysis") => ReturnsFromWindowOnly

\* The 2017 returns with a 2016 row just before them that holds prices different
\* from the ones of the first 2017 row, and a return on the second 2017 row
C12_Witness ==
    /\ cpc = "done" /\ corr_call.file = "analysis" /\ corr_call.year = 2017
    /\ new_year = 2
    /\ \A j \in DOMAIN combined_df.data :
          /\ combined_df.data[j][1] # NaN /\ combined_df.data[j][2] # NaN
          /\ combined_df.data[j][1] # combined_df.data[j][2]
          /\ corr_call.input.data[j][2] = nan
          /\ corr_call.input.data[j][3] # nan

\* The rows where both columns a and b of what corr() was handed have a value
PairedRows(a, b) ==
    { t \in Range(corr_call.input.index) :
        corr_call.input.data[a][t] # nan /\ corr_call.input.data[b][t] # nan }

\* Column a of what corr() was handed has the same value wherever it has one
FlatColumn(a) ==
    \A t, u \in Range(corr_call.input.index) :
        (corr_call.input.data[a][t] # nan /\ corr_call.input.data[a][u] # nan)
            => corr_call.input.data[a][t] = corr_call.input.data[a][u]

\* Price column j of combined_df is one price over the whole year
FlatPrices(j) ==
    \E x \in PriceLevels : \A t \in CallWindow : combined_df.data[j][t] = x

\* C13: corr() returns, with no error, a table whose cell is undefined for a pair
\* of columns with fewer than two rows where both have a return, and whose
\* cells M[A][*] and M[*][A], M[A][A] too, are all undefined for a column A that
\* is constant over the year.
C13_UndefinedCells ==
    (cpc = "done") =>
        /\ corr_call.outcome = "return"
        /\ \A a, b \in DOMAIN corr_call.input.data :
              /\ Cardinality(PairedRows(a, b)) < 2 => corr_call.matrix[a][b] = Undefined
              /\ FlatColumn(a) =>
                    corr_call.matrix[a][b] = Undefined /\ corr_call.matrix[b][a] = Undefined
              /\ (corr_call.file = "analysis" /\ FlatPrices(a)) =>
                    corr_call.matrix[a][b] = Undefined /\ corr_call.matrix[b][a] = Undefined

\* BTC stood at one price for the three days of 2017 while ETH moved: the ETH
\* cell of the diagonal is 1, every BTC cell is undefined
C13_Witness ==
    /\ cpc = "done" /\ corr_call.file = "analysis" /\ corr_call.year = 2017
    /\ Cardinality(CallWindow) >= 3
    /\ FlatPrices(2)
    /\ corr_call.matrix[1][1] = [def |-> TRUE, sign |-> 1, num |-> 1, den |-> 1]
    /\ Cardinality(PairedRows(1, 2)) >= 2
    /\ corr_call.matrix[1][2] = Undefined
    /\ corr_call.matrix[2][1] = Undefined
    /\ corr_call.matrix[2][2] = Undefined

(***************************************************************************)
(* Properties of a whole run of the script                                 *)
(***************************************************************************)
\* Some altcoin dataframe has its price_usd column
Converted == \E j \in DOMAIN altcoin_data.val : PriceUsd \in DOMAIN altcoin_data.val[j]

\* btc_usd_datasets holds the four downloaded exchange series merged on the
\* union of their rows with every 0 taken out, and their average next to them
ReferenceComplete ==
    /\ exchange_data.keys = ExchangeNames
    /\ "columns" \in DOMAIN btc_usd_datasets
    /\ btc_usd_datasets.columns = Append(ExchangeNames, AvgColumn)
    /\ Range(btc_usd_datasets.index) = UNION { DOMAIN ExchangeInput(i) : i \in DOMAIN ExchangeNames }
    /\ \A t \in Range(btc_usd_datasets.index) :
          /\ \A i \in DOMAIN ExchangeNames :
                Cell(btc_usd_datasets, t, ExchangeNames[i]) =
                    IF t \in DOMAIN ExchangeInput(i) /\ ExchangeInput(i)[t] # 0
                    THEN ExchangeInput(i)[t] ELSE NaN
          /\ IF DefinedAt(t) = {} THEN Reference(t) = NaN
             ELSE /\ Reference(t) # NaN
                  /\ Reference(t) * Cardinality(DefinedAt(t)) =
                        ValueOrZero(t, "KRAKEN") + ValueOrZero(t, "COINBASE")
                            + ValueOrZero(t, "BITSTAMP") + ValueOrZero(t, "ITBIT")

ConversionNeedsReference ==
    /\ (Converted \/ ipc \in {"converted", "combined", "final"}) => ReferenceComplete
    /\ (ipc # "start" /\ Len(exchange_data.keys) < Len(ExchangeNames)) =>
          /\ ipc = "aborted"
          /\ btc_usd_datasets = NoResult
          /\ altcoin_data = EmptyDict
          /\ combined_df = NoResult
    /\ ipc = "aborted" => ~Converted

ConversionStep ==
    /\ (~Converted /\ Converted') => (ipc = "altcoins" /\ ReferenceComplete)
    /\ ipc # "aborted"

\* C14: in every run, an altcoin series is converted to USD only after all four
\* exchange series (KRAKEN, COINBASE, BITSTAMP, ITBIT) have been downloaded,
\* merged, freed of zeros and averaged into the index; when the download of an
\* exchange fails the run ends there, with nothing converted then or later.
C14_ConversionAfterIndex == [](ConversionNeedsReference) /\ [][ConversionStep]_vars

\* A run that converted an altcoin price with an index built from an exchange
\* that reported a 0 and one that started a day late
C14_Witness ==
    /\ ipc = "converted"
    /\ \E i \in DOMAIN exchange_data.val : \E t \in DOMAIN ExchangeInput(i) : ExchangeInput(i)[t] = 0
    /\ \E i \in DOMAIN exchange_data.val : 1 \notin DOMAIN ExchangeInput(i)
    /\ \E j \in DOMAIN altcoin_data.val : \E t \in DOMAIN altcoin_data.val[j][PriceUsd] :
          altcoin_data.val[j][PriceUsd][t] > 0

NoZeroIn(series) == \A t \in DOMAIN series : series[t] # 0

\* C15: every downloaded series, of the exchanges and of the altcoins alike, has
\* its zeros taken out before it is merged: no cell of the table the index is
\* averaged from, of the series handed to the conversion, or of the table handed
\* to the correlations holds 0.
C15_NoZeroCell ==
    /\ ipc \in {"cleaned", "averaged", "altcoins", "converted", "combined", "final"} =>
          \A j \in DOMAIN btc_usd_datasets.data : NoZeroIn(btc_usd_datasets.data[j])
    /\ ipc \in {"altcoins", "converted", "combined", "final"} =>
          \A j \in DOMAIN altcoin_data.val :
              \A c \in DOMAIN altcoin_data.val[j] : NoZeroIn(altcoin_data.val[j][c])
    /\ ipc \in {"combined", "final"} =>
          \A j \in DOMAIN combined_df.data : NoZeroIn(combined_df.data[j])

\* The timestamps at which some altcoin has a row
AltcoinRows == UNION { DOMAIN altcoin_data.val[j][WeightedAverage] : j \in DOMAIN altcoin_data.val }

\* C16 as stated: the rows of the final combined_df are the union of the
\* timestamps of all ten series; no timestamp at which the BTC index has a value
\* is dropped, also where no altcoin has a row.
C16_RowsOfAllTenSeries ==
    ipc = "final" =>
        /\ AltcoinRows \subseteq Range(combined_df.index)
        /\ \A t \in Range(btc_usd_datasets.index) :
              Reference(t) # NaN => t \in Range(combined_df.index)

\* C16: the rows of the final combined_df are the union of the timestamps of the
\* nine altcoin series alone; the BTC column is the index aligned to those rows
\* (missing where the index has no row or no value), and a timestamp at which
\* only the index has a value is not a row of the table.
C16_RowsOfAltcoinsOnly ==
    ipc = "final" =>
        /\ Range(combined_df.index) = AltcoinRows
        /\ combined_df.columns = Append(altcoins, BtcColumn)
        /\ \A t \in AltcoinRows : Cell(combined_df, t, BtcColumn) = Reference(t)
        /\ \A j \in DOMAIN altcoins : \A t \in AltcoinRows :
              Cell(combined_df, t, altcoins[j]) =
                  IF t \in DOMAIN altcoin_data.val[j][PriceUsd]
                  THEN altcoin_data.val[j][PriceUsd][t] ELSE NaN

\* The index has a value on day 1, when no altcoin traded yet: day 1 is no row
\* of combined_df, whose last row has no BTC price
C16_Witness ==
    /\ ipc = "final"
    /\ Reference(1) # NaN
    /\ 1 \notin AltcoinRows
    /\ 1 \notin Range(combined_df.index)
    /\ (MaxTradeDay + 1) \in Range(combined_df.index)
    /\ Cell(combined_df, MaxTradeDay + 1, BtcColumn) = NaN
    /\ Cell(combined_df, MaxTradeDay, BtcColumn) # NaN

====
